---- MODULE Spec2Model ----
(***************************************************************************)
(* Model of the command dispatcher of gostartkit/cmd (src/cmd.go).         *)
(*                                                                         *)
(* One behaviour is one process invocation: main registers the commands,   *)
(* calls Execute, and Execute parses the global flags, serves "help" or    *)
(* resolves the command with findCommand, binds and parses the command's   *)
(* flags and calls its Run handler.  Commands are pointers (indices) into  *)
(* the table Command; 0 is the nil pointer.  Writes to stdout and stderr   *)
(* are assumed to succeed, and the Long texts of the commands are          *)
(* templates without actions.                                              *)
(***************************************************************************)
EXTENDS Integers, Sequences, FiniteSets, TLC

VARIABLES
    osArgs,         \* os.Args[1:], the raw argument vector of the process
    _commands,      \* the registry: sequence of *Command
    _setFlags,      \* TRUE iff a global SetFlags hook is registered
    _usageTemplate, \* the text of the program usage template
    _exitStatus,    \* the exit-status accumulator
    args,           \* flag.Args() inside Execute
    findArgs,       \* the argument vector handed to findCommand
    cmd,            \* *Command returned by findCommand (0 = nil)
    remainingArgs,  \* args returned by findCommand
    err,            \* the error findCommand returned ("nil" = none)
    parseErr,       \* the error the last flag set Parse returned
    runErr,         \* the error the Run handler returned
    flag,           \* cmd.flag: [nil, formal, args]
    runArgs,        \* what the Run handler was called with
    trace,          \* the calls Execute made so far, in order
    stdout,         \* what was written to os.Stdout
    stderr,         \* what was written to os.Stderr / the logger
    exitCode,       \* the status the process ended with (-1 while running)
    calls,          \* SpecExit only: the exit-status calls made so far
    pc              \* position of the process

vars == <<osArgs, _commands, _setFlags, _usageTemplate, _exitStatus, args, findArgs, cmd,
          remainingArgs, err, parseErr, runErr, flag, runArgs, trace, stdout, stderr, exitCode,
          calls, pc>>

(***************************************************************************)
(* Bounds.                                                                 *)
(***************************************************************************)
MaxArgs == 3
MaxCalls == 3
MaxStatus == 3

(***************************************************************************)
(* The commands of the process.  Run is TRUE iff the handler is non-nil,   *)
(* SetFlags is TRUE iff the hook is non-nil and FlagDecls is what the hook *)
(* registers on the flag set it is given.                                  *)
(***************************************************************************)
nil == 0

Command ==
    << [Name |-> "version", Aliases |-> <<"v">>, UsageLine |-> "version",
        Short |-> "display version", Long |-> "display version and build info.",
        Run |-> TRUE, SetFlags |-> FALSE, FlagDecls |-> {},
        SubCommands |-> <<>>],
       [Name |-> "remote", Aliases |-> <<>>, UsageLine |-> "remote <command>",
        Short |-> "manage remotes", Long |-> "",
        Run |-> FALSE, SetFlags |-> FALSE, FlagDecls |-> {},
        SubCommands |-> <<3>>],
       [Name |-> "add", Aliases |-> <<"a">>, UsageLine |-> "remote add <name>",
        Short |-> "add a remote", Long |-> "",
        Run |-> TRUE, SetFlags |-> TRUE, FlagDecls |-> {"x"},
        SubCommands |-> <<4>>],
       [Name |-> "origin", Aliases |-> <<>>, UsageLine |-> "remote add origin",
        Short |-> "add the origin", Long |-> "",
        Run |-> TRUE, SetFlags |-> FALSE, FlagDecls |-> {},
        SubCommands |-> <<>>],
       [Name |-> "help", Aliases |-> <<>>, UsageLine |-> "help",
        Short |-> "a command named help", Long |-> "",
        Run |-> TRUE, SetFlags |-> FALSE, FlagDecls |-> {},
        SubCommands |-> <<>>] >>

\* The registries main may have built with AddCommands.  Names and aliases
\* are pairwise distinct among siblings, as the data model requires.
Registries == { <<>>, <<1>>, <<2>>, <<3>>, <<1, 2>>, <<5, 1>> }

\* The global hook of the README registers the bool flag "force".
GlobalFlagDecls == {"force"}

Tokens == {"help", "version", "v", "remote", "add", "a", "origin", "bogus",
           "-x", "--force", "--"}

RECURSIVE SeqsUpTo(_)
SeqsUpTo(n) ==
    IF n = 0 THEN { <<>> }
    ELSE LET shorter == SeqsUpTo(n - 1)
         IN  shorter \cup { Append(s, t) : s \in { q \in shorter : Len(q) = n - 1 },
                                           t \in Tokens }

(***************************************************************************)
(* Pure functions of cmd.go.                                               *)
(***************************************************************************)
\* Mutant of contains: the scan starts at the second element.
RECURSIVE containsSkipFirst(_, _)
containsSkipFirst(slice, str) ==
    IF Len(slice) < 2 THEN FALSE
    ELSE IF slice[2] = str THEN TRUE
    ELSE containsSkipFirst(Tail(slice), str)

RECURSIVE contains(_, _)
contains(slice, str) ==
    IF slice = <<>> THEN FALSE
    ELSE IF Head(slice) = str THEN TRUE
    ELSE contains(Tail(slice), str)

\* Mutant of Search: a miss returns the last command looked at instead of
\* nil.
RECURSIVE SearchLastOnMiss(_, _)
SearchLastOnMiss(c, name) ==
    IF c = <<>> THEN nil
    ELSE IF Command[Head(c)].Name = name \/ contains(Command[Head(c)].Aliases, name)
         THEN Head(c)
         ELSE IF Tail(c) = <<>> THEN Head(c)
         ELSE SearchLastOnMiss(Tail(c), name)

RECURSIVE Search(_, _)
Search(c, name) ==
    IF c = <<>> THEN nil
    ELSE IF Command[Head(c)].Name = name \/ contains(Command[Head(c)].Aliases, name)
         THEN Head(c)
         ELSE Search(Tail(c), name)

Runnable(c) == Command[c].Run

\* Mutant of findCommand: a failed subcommand lookup is propagated instead
\* of falling back to the command already matched.
RECURSIVE findCommandNoFallback(_, _)
findCommandNoFallback(cmds, a) ==
    IF Len(a) = 0
    THEN [cmd |-> nil, remainingArgs |-> <<>>, err |-> "ErrNotFound"]
    ELSE LET c == Search(cmds, a[1])
         IN  IF c = nil
             THEN [cmd |-> nil, remainingArgs |-> <<>>, err |-> "ErrNotFound"]
             ELSE IF Len(a) > 1 /\ Len(Command[c].SubCommands) > 0
                  THEN findCommandNoFallback(Command[c].SubCommands, Tail(a))
                  ELSE [cmd |-> c, remainingArgs |-> Tail(a), err |-> "nil"]

RECURSIVE findCommand(_, _)
findCommand(cmds, a) ==
    IF Len(a) = 0
    THEN [cmd |-> nil, remainingArgs |-> <<>>, err |-> "ErrNotFound"]
    ELSE LET c == Search(cmds, a[1])
         IN  IF c = nil
             THEN [cmd |-> nil, remainingArgs |-> <<>>, err |-> "ErrNotFound"]
             ELSE IF Len(a) > 1 /\ Len(Command[c].SubCommands) > 0
                  THEN LET sub == findCommand(Command[c].SubCommands, Tail(a))
                       IN  IF sub.err = "nil"
                           THEN sub
                           ELSE [cmd |-> c, remainingArgs |-> Tail(a), err |-> "nil"]
                  ELSE [cmd |-> c, remainingArgs |-> Tail(a), err |-> "nil"]

\* Mutant of setExitStatus: the status is assigned without the comparison.
setExitStatusAssign(old, n) == n

setExitStatus(old, n) == IF old < n THEN n ELSE old

(***************************************************************************)
(* flag.FlagSet.Parse as Execute uses it: every registered flag is a bool  *)
(* flag.  Parsing stops at the first token that is not a flag and at "--", *)
(* which it consumes; a flag that is not registered is an error, reported  *)
(* after the flag set's Usage function was called.  The message the flag   *)
(* package itself writes for the error is not recorded.                    *)
(***************************************************************************)
IsFlag(tok) == tok \in {"-x", "--force"}

FlagName(tok) == IF tok = "-x" THEN "x" ELSE "force"

RECURSIVE Parse(_, _)
Parse(formal, arguments) ==
    IF arguments = <<>>
    THEN [err |-> "nil", args |-> <<>>]
    ELSE IF Head(arguments) = "--"
    THEN [err |-> "nil", args |-> Tail(arguments)]
    ELSE IF ~IsFlag(Head(arguments))
    THEN [err |-> "nil", args |-> arguments]
    ELSE IF FlagName(Head(arguments)) \notin formal
    THEN [err |-> "ErrFlag", args |-> Tail(arguments)]
    ELSE Parse(formal, Tail(arguments))

(***************************************************************************)
(* What the renderers write.                                               *)
(***************************************************************************)
RECURSIVE RunnableNames(_)
RunnableNames(cmds) ==
    IF cmds = <<>> THEN <<>>
    ELSE IF Runnable(Head(cmds))
         THEN <<[Name |-> Command[Head(cmds)].Name,
                 Short |-> Command[Head(cmds)].Short]>>
              \o RunnableNames(Tail(cmds))
         ELSE RunnableNames(Tail(cmds))

\* Command.Usage: the usage line, the aliases, the long description, the
\* runnable subcommands and, when the command's flag set exists, its flags;
\* all to os.Stdout.
Usage(c, f) ==
    [kind |-> "Usage", cmd |-> c, line |-> Command[c].UsageLine,
     aliases |-> Command[c].Aliases,
     long |-> Command[c].Long,
     subs |-> RunnableNames(Command[c].SubCommands),
     flags |-> IF f.nil THEN {} ELSE f.formal]

\* The template text _usageTemplate starts with: it lists the runnable
\* top-level commands.
DefaultUsageTemplate ==
    "{{range .Commands}}{{if .Runnable}}{{.Name | printf \"%-11s\"}} {{.Short}}{{end}}{{end}}"

\* The template texts main may have left in _usageTemplate: the default,
\* or through SetUsageTemplate a text without actions, a text whose action
\* names a field the data does not have, or a text that does not parse.
UsageTemplates == {DefaultUsageTemplate, "my tool", "{{.Nope}}", "{{"}

\* runTemplate for the program usage data: template.Must panics on a text
\* that does not parse, and a failed Execute ends in panic(err) with
\* nothing written; otherwise the expanded text is written.
runTemplate(text, data) ==
    IF text = "{{" \/ text = "{{.Nope}}"
    THEN [panic |-> TRUE, out |-> [kind |-> "usage", text |-> text, cmds |-> <<>>]]
    ELSE IF text = DefaultUsageTemplate
    THEN [panic |-> FALSE,
          out |-> [kind |-> "usage", text |-> text,
                   cmds |-> RunnableNames(data.Commands)]]
    ELSE [panic |-> FALSE, out |-> [kind |-> "usage", text |-> text, cmds |-> <<>>]]

NoFlagSet == [nil |-> TRUE, formal |-> {}, args |-> <<>>]

(***************************************************************************)
(* Exit-status plumbing.                                                   *)
(***************************************************************************)
exit(status) ==
    /\ exitCode' = status
    /\ pc' = "exited"

errorf(line) ==
    /\ stderr' = Append(stderr, line)
    /\ _exitStatus' = setExitStatus(_exitStatus, 1)

fatalf(line) ==
    /\ errorf(line)
    /\ exit(_exitStatus')

\* usage() renders _usageTemplate to os.Stderr through a buffered writer
\* and calls os.Exit(2); when runTemplate panics nothing was flushed and
\* os.Exit is not reached.
usage ==
    /\ LET r == runTemplate(_usageTemplate,
                            [Short |-> "Command-line tool", Commands |-> _commands])
       IN  IF r.panic
           THEN /\ pc' = "panicked"
                /\ exitCode' = 2
                /\ UNCHANGED stderr
           ELSE /\ stderr' = Append(stderr, r.out)
                /\ exitCode' = 2
                /\ pc' = "exited"
    /\ UNCHANGED _exitStatus

(***************************************************************************)
(* Initial state: main has registered the hook and the commands and is     *)
(* about to call Execute.                                                  *)
(***************************************************************************)
Init ==
    /\ osArgs \in SeqsUpTo(MaxArgs)
    /\ _commands \in Registries
    /\ _setFlags \in BOOLEAN
    /\ _usageTemplate \in UsageTemplates
    /\ _exitStatus = 0
    /\ args = <<>>
    /\ findArgs = <<>>
    /\ cmd = nil
    /\ remainingArgs = <<>>
    /\ err = "nil"
    /\ parseErr = "nil"
    /\ runErr = "nil"
    /\ flag = NoFlagSet
    /\ runArgs = <<>>
    /\ trace = <<>>
    /\ stdout = <<>>
    /\ stderr = <<>>
    /\ exitCode = -1
    /\ calls = <<>>
    /\ pc = "Execute"

(***************************************************************************)
(* Execute, step by step.                                                  *)
(***************************************************************************)
\* flag.Parse() on the process flag set, which has no flags registered and
\* whose Usage is usage; flag.Args() are the positional arguments left.
FlagParse ==
    /\ pc = "Execute"
    /\ LET r == Parse({}, osArgs)
       IN  IF r.err # "nil"
           THEN /\ usage
                /\ parseErr' = r.err
                /\ UNCHANGED args
           ELSE /\ args' = r.args
                /\ pc' = "args"
                /\ UNCHANGED <<parseErr, stderr, exitCode, _exitStatus>>
    /\ UNCHANGED <<osArgs, _commands, _setFlags, _usageTemplate, findArgs, cmd, remainingArgs,
                   err, runErr, flag, runArgs, trace, stdout, calls>>

\* len(args) < 1: usage().
NoArgs ==
    /\ pc = "args"
    /\ Len(args) < 1
    /\ usage
    /\ UNCHANGED <<osArgs, _commands, _setFlags, _usageTemplate, args, findArgs, cmd,
                   remainingArgs, err, parseErr, runErr, flag, runArgs, trace,
                   stdout, calls>>

\* Mutant of help: the process exits with status 2 after the command's
\* usage was rendered.
helpExit2(a) ==
    IF Len(a) = 0
    THEN /\ usage
         /\ UNCHANGED <<findArgs, cmd, remainingArgs, err, trace, stdout>>
    ELSE LET r == findCommand(_commands, a)
         IN  /\ findArgs' = a
             /\ cmd' = r.cmd
             /\ remainingArgs' = r.remainingArgs
             /\ err' = r.err
             /\ trace' = Append(trace, "findCommand")
             /\ IF r.err # "nil"
                THEN /\ fatalf([kind |-> "help", name |-> a[1], err |-> r.err])
                     /\ UNCHANGED stdout
                ELSE /\ stdout' = Append(stdout, Usage(r.cmd, NoFlagSet))
                     /\ pc' = "exited"
                     /\ exitCode' = 2
                     /\ UNCHANGED <<stderr, _exitStatus>>

\* help(args): the program usage for no argument; otherwise the arguments
\* are resolved as a command path and the command found renders its usage.
help(a) ==
    IF Len(a) = 0
    THEN /\ usage
         /\ UNCHANGED <<findArgs, cmd, remainingArgs, err, trace, stdout>>
    ELSE LET r == findCommand(_commands, a)
         IN  /\ findArgs' = a
             /\ cmd' = r.cmd
             /\ remainingArgs' = r.remainingArgs
             /\ err' = r.err
             /\ trace' = Append(trace, "findCommand")
             /\ IF r.err # "nil"
                THEN /\ fatalf([kind |-> "help", name |-> a[1], err |-> r.err])
                     /\ UNCHANGED stdout
                ELSE /\ stdout' = Append(stdout, Usage(r.cmd, NoFlagSet))
                     /\ pc' = "returned"
                     /\ UNCHANGED <<stderr, exitCode, _exitStatus>>

\* args[0] == "help": help(args[1:]); return.
Help ==
    /\ pc = "args"
    /\ Len(args) >= 1
    /\ args[1] = "help"
    /\ help(Tail(args))
    /\ UNCHANGED <<osArgs, _commands, _setFlags, _usageTemplate, args, parseErr, runErr, flag,
                   runArgs, calls>>

\* cmd, remainingArgs, err := findCommand(_commands, args); fatalf on error.
Resolve ==
    /\ pc = "args"
    /\ Len(args) >= 1
    /\ args[1] # "help"
    /\ LET r == findCommand(_commands, args)
       IN  /\ findArgs' = args
           /\ cmd' = r.cmd
           /\ remainingArgs' = r.remainingArgs
           /\ err' = r.err
           /\ trace' = Append(trace, "findCommand")
           /\ IF r.err # "nil"
              THEN fatalf([kind |-> "cmd", name |-> args[1], err |-> r.err])
              ELSE /\ pc' = "found"
                   /\ UNCHANGED <<stderr, exitCode, _exitStatus>>
    /\ UNCHANGED <<osArgs, _commands, _setFlags, _usageTemplate, args, parseErr, runErr, flag,
                   runArgs, stdout, calls>>

\* addFlags applies the global hook when one is registered.
addFlags(formal) == IF _setFlags THEN formal \cup GlobalFlagDecls ELSE formal

\* cmd.flag is created, then addFlags(cmd.flag), then cmd.SetFlags(cmd.flag).
FlagBinding ==
    /\ pc = "found"
    /\ LET global == addFlags({})
           own == IF Command[cmd].SetFlags
                  THEN global \cup Command[cmd].FlagDecls
                  ELSE global
       IN  flag' = [nil |-> FALSE, formal |-> own, args |-> <<>>]
    /\ trace' = trace \o (IF _setFlags THEN <<"_setFlags">> ELSE <<>>)
                      \o (IF Command[cmd].SetFlags THEN <<"SetFlags">> ELSE <<>>)
    /\ pc' = "bound"
    /\ UNCHANGED <<osArgs, _commands, _setFlags, _usageTemplate, _exitStatus, args, findArgs,
                   cmd, remainingArgs, err, parseErr, runErr, runArgs, stdout,
                   stderr, exitCode, calls>>

\* cmd.flag.Parse(remainingArgs): on error the flag set has called
\* cmd.Usage, and Execute calls fatalf.
CommandFlagParse ==
    /\ pc = "bound"
    /\ LET r == Parse(flag.formal, remainingArgs)
       IN  /\ parseErr' = r.err
           /\ flag' = [flag EXCEPT !.args = r.args]
           /\ IF r.err # "nil"
              THEN /\ stdout' = Append(stdout, Usage(cmd, flag))
                   /\ fatalf([kind |-> "cmd", name |-> args[1], err |-> r.err])
                   /\ UNCHANGED trace
              ELSE /\ trace' = Append(trace, "Parse")
                   /\ pc' = "parsed"
                   /\ UNCHANGED <<stdout, stderr, exitCode, _exitStatus>>
    /\ UNCHANGED <<osArgs, _commands, _setFlags, _usageTemplate, args, findArgs, cmd,
                   remainingArgs, err, runErr, runArgs, calls>>

\* Mutant of Invoke: the handler is given the resolver's remaining args
\* instead of the flag set's leftover args.
InvokeUnparsedArgs ==
    /\ pc = "parsed"
    /\ IF ~Runnable(cmd)
       THEN /\ pc' = "panicked"
            /\ exitCode' = 2
            /\ UNCHANGED <<runErr, runArgs, trace, stderr, _exitStatus>>
       ELSE \E result \in {"nil", "ErrRun"} :
              /\ runArgs' = remainingArgs
              /\ trace' = Append(trace, "Run")
              /\ runErr' = result
              /\ IF result # "nil"
                 THEN fatalf([kind |-> "cmd", name |-> args[1], err |-> result])
                 ELSE /\ exit(_exitStatus)
                      /\ UNCHANGED <<stderr, _exitStatus>>
    /\ UNCHANGED <<osArgs, _commands, _setFlags, _usageTemplate, args, findArgs, cmd,
                   remainingArgs, err, parseErr, flag, stdout, calls>>

\* cmd.Run(cmd, cmd.flag.Args()): calling a nil Run panics; a handler that
\* returns an error ends in fatalf, one that returns nil in exit().
Invoke ==
    /\ pc = "parsed"
    /\ IF ~Runnable(cmd)
       THEN /\ pc' = "panicked"
            /\ exitCode' = 2
            /\ UNCHANGED <<runErr, runArgs, trace, stderr, _exitStatus>>
       ELSE \E result \in {"nil", "ErrRun"} :
              /\ runArgs' = flag.args
              /\ trace' = Append(trace, "Run")
              /\ runErr' = result
              /\ IF result # "nil"
                 THEN fatalf([kind |-> "cmd", name |-> args[1], err |-> result])
                 ELSE /\ exit(_exitStatus)
                      /\ UNCHANGED <<stderr, _exitStatus>>
    /\ UNCHANGED <<osArgs, _commands, _setFlags, _usageTemplate, args, findArgs, cmd,
                   remainingArgs, err, parseErr, flag, stdout, calls>>

\* Execute has returned to main, whose last statement it is: the process
\* ends with status 0.
MainReturn ==
    /\ pc = "returned"
    /\ pc' = "exited"
    /\ exitCode' = 0
    /\ UNCHANGED <<osArgs, _commands, _setFlags, _usageTemplate, _exitStatus, args, findArgs,
                   cmd, remainingArgs, err, parseErr, runErr, flag, runArgs,
                   trace, stdout, stderr, calls>>

Next ==
    \/ FlagParse
    \/ NoArgs
    \/ Help
    \/ Resolve
    \/ FlagBinding
    \/ CommandFlagParse
    \/ Invoke
    \/ MainReturn

Spec == Init /\ [][Next]_vars

(***************************************************************************)
(* The exit-status functions on their own: any sequence of at most         *)
(* MaxCalls calls of setExitStatus(n), errorf and then fatalf or exit.     *)
(***************************************************************************)
InitExit ==
    /\ osArgs = <<>>
    /\ _commands = <<>>
    /\ _setFlags = FALSE
    /\ _usageTemplate = DefaultUsageTemplate
    /\ _exitStatus = 0
    /\ args = <<>>
    /\ findArgs = <<>>
    /\ cmd = nil
    /\ remainingArgs = <<>>
    /\ err = "nil"
    /\ parseErr = "nil"
    /\ runErr = "nil"
    /\ flag = NoFlagSet
    /\ runArgs = <<>>
    /\ trace = <<>>
    /\ stdout = <<>>
    /\ stderr = <<>>
    /\ exitCode = -1
    /\ calls = <<>>
    /\ pc = "calls"

others == <<osArgs, _commands, _setFlags, _usageTemplate, args, findArgs, cmd, remainingArgs,
            err, parseErr, runErr, flag, runArgs, trace, stdout>>

CallSetExitStatus ==
    /\ pc = "calls"
    /\ Len(calls) < MaxCalls
    /\ \E n \in 0..MaxStatus :
         /\ _exitStatus' = setExitStatus(_exitStatus, n)
         /\ calls' = Append(calls, [op |-> "setExitStatus", n |-> n])
    /\ UNCHANGED <<others, stderr, exitCode, pc>>

CallErrorf ==
    /\ pc = "calls"
    /\ Len(calls) < MaxCalls
    /\ errorf([kind |-> "log"])
    /\ calls' = Append(calls, [op |-> "errorf", n |-> 1])
    /\ UNCHANGED <<others, exitCode, pc>>

CallFatalf ==
    /\ pc = "calls"
    /\ fatalf([kind |-> "log"])
    /\ calls' = Append(calls, [op |-> "fatalf", n |-> 1])
    /\ UNCHANGED others

CallExit ==
    /\ pc = "calls"
    /\ exit(_exitStatus)
    /\ calls' = Append(calls, [op |-> "exit", n |-> 0])
    /\ UNCHANGED <<others, stderr, _exitStatus>>

NextExit ==
    \/ CallSetExitStatus
    \/ CallErrorf
    \/ CallFatalf
    \/ CallExit

SpecExit == InitExit /\ [][NextExit]_vars

(***************************************************************************)
(* Properties.                                                             *)
(***************************************************************************)
\* findCommand has been called and its result is in cmd, remainingArgs, err.
Resolved == Len(trace) >= 1

\* name is the Name or an alias of command c.
Names(c, name) ==
    \/ Command[c].Name = name
    \/ \E j \in 1..Len(Command[c].Aliases) : Command[c].Aliases[j] = name

\* The first command of cmds that name names, nil when there is none.
Named(cmds, name) ==
    IF \E i \in 1..Len(cmds) : Names(cmds[i], name)
    THEN cmds[CHOOSE i \in 1..Len(cmds) :
                  /\ Names(cmds[i], name)
                  /\ \A k \in 1..(i - 1) : ~Names(cmds[k], name)]
    ELSE nil

\* The registry holds the single command C, C has subcommands, and
\* findCommand was called with [C.Name, t, extra...].
FallbackCase ==
    /\ Resolved
    /\ Len(_commands) = 1
    /\ Len(Command[_commands[1]].SubCommands) > 0
    /\ Len(findArgs) >= 2
    /\ findArgs[1] = Command[_commands[1]].Name

\* C1 as stated: with registry {C} and arguments [C.Name, t, extra...],
\* findCommand returns the subcommand subA that t names with the remaining
\* args [extra...], or C itself with [t, extra...] when t names no
\* subcommand of C, and never an error.
C1_FallbackLawAsStated ==
    FallbackCase =>
        LET C == _commands[1]
            subA == Named(Command[C].SubCommands, findArgs[2])
        IN  /\ err = "nil"
            /\ IF subA # nil
               THEN cmd = subA /\ remainingArgs = Tail(Tail(findArgs))
               ELSE cmd = C /\ remainingArgs = Tail(findArgs)

\* C1 amended: findCommand returns subA with [extra...] when t names the
\* subcommand subA of C and the first extra argument names no subcommand of
\* subA; when it names one, resolution descends below subA and returns what
\* resolving [extra...] among subA's subcommands returns, a command with a
\* proper suffix of [extra...]; it returns C with [t, extra...] when t
\* names no subcommand of C; there is no error in any of these cases.
C1_FallbackLaw ==
    FallbackCase =>
        LET C == _commands[1]
            subA == Named(Command[C].SubCommands, findArgs[2])
            extra == Tail(Tail(findArgs))
        IN  /\ err = "nil"
            /\ IF subA = nil
               THEN cmd = C /\ remainingArgs = Tail(findArgs)
               ELSE IF /\ Len(extra) > 0
                       /\ Named(Command[subA].SubCommands, extra[1]) # nil
                    THEN LET below == findCommand(Command[subA].SubCommands, extra)
                         IN  /\ cmd # nil
                             /\ cmd = below.cmd
                             /\ remainingArgs = below.remainingArgs
                             /\ Len(remainingArgs) < Len(extra)
                             /\ remainingArgs =
                                  SubSeq(extra, Len(extra) - Len(remainingArgs) + 1,
                                         Len(extra))
                    ELSE cmd = subA /\ remainingArgs = extra

\* C1 witness: the fallback to C happened with an extra argument behind
\* the unmatched token.
C1_Witness ==
    /\ FallbackCase
    /\ Len(findArgs) = 3
    /\ Named(Command[_commands[1]].SubCommands, findArgs[2]) = nil
    /\ cmd = _commands[1]
    /\ remainingArgs = Tail(findArgs)

\* C2: when the first token of a non-empty argument vector is neither the
\* Name nor an alias of any command of the registry, findCommand returns
\* the not-found error and no command, whatever the later tokens are.
C2_UnknownFirstTokenNotFound ==
    ( /\ Resolved
      /\ Len(findArgs) >= 1
      /\ \A i \in 1..Len(_commands) : ~Names(_commands[i], findArgs[1]) )
    => (err = "ErrNotFound" /\ cmd = nil)

\* C2 witness: an unknown first token followed by the name of a registered
\* command was rejected by a non-empty registry.
C2_Witness ==
    /\ Resolved
    /\ Len(findArgs) >= 2
    /\ _commands # <<>>
    /\ \A i \in 1..Len(_commands) : ~Names(_commands[i], findArgs[1])
    /\ \E i \in 1..Len(_commands) : Names(_commands[i], findArgs[2])
    /\ err = "ErrNotFound"

\* The registry in which findCommand looks up token i of a, <<>> when the
\* resolver does not get that far.
RECURSIVE LevelAt(_, _, _)
LevelAt(cmds, a, i) ==
    IF i = 1 THEN cmds
    ELSE LET c == Named(cmds, a[1])
         IN  IF c = nil THEN <<>>
             ELSE LevelAt(Command[c].SubCommands, Tail(a), i - 1)

\* C3: when a token of the argument vector is an alias of a command K of
\* the registry the resolver looks it up in, findCommand returns the same
\* command, remaining args and error as for the vector with K.Name in the
\* place of the alias.
C3_AliasEquivalence ==
    Resolved =>
        \A i \in 1..Len(findArgs) :
            LET level == LevelAt(_commands, findArgs, i)
            IN  \A k \in 1..Len(level) :
                    (\E j \in 1..Len(Command[level[k]].Aliases) :
                         Command[level[k]].Aliases[j] = findArgs[i])
                    => LET canon == [findArgs EXCEPT ![i] = Command[level[k]].Name]
                           r == findCommand(_commands, canon)
                       IN  /\ cmd = r.cmd
                           /\ remainingArgs = r.remainingArgs
                           /\ err = r.err

\* C3 witness: a subcommand was reached through its alias below a command
\* that was itself named by its Name, with an argument left over.
C3_Witness ==
    /\ Resolved
    /\ Len(findArgs) = 3
    /\ findArgs[1] = "remote"
    /\ findArgs[2] = "a"
    /\ cmd = 3
    /\ remainingArgs = <<findArgs[3]>>

\* C4 as stated: when Execute ends because findCommand failed or because
\* the command's flag set failed to parse its arguments, the process ends
\* with exit status 2.
C4_UsageErrorsExitWith2 ==
    ( /\ pc = "exited"
      /\ Len(args) >= 1
      /\ args[1] # "help"
      /\ (err # "nil" \/ parseErr # "nil") )
    => exitCode = 2

\* C5: for the arguments ["help", name] with name naming a registered
\* command, that command's usage is written to standard output and nothing
\* to standard error, the Run handler is never called, and the process ends
\* with status 0.
C5_HelpForCommand ==
    ( /\ Len(args) = 2
      /\ args[1] = "help"
      /\ Named(_commands, args[2]) # nil )
    => /\ \A i \in 1..Len(trace) : trace[i] # "Run"
       /\ pc # "panicked"
       /\ pc \in {"returned", "exited"} =>
              /\ Len(stdout) = 1
              /\ stdout[1].kind = "Usage"
              /\ stdout[1].cmd = Named(_commands, args[2])
              /\ stdout[1].line = Command[Named(_commands, args[2])].UsageLine
              /\ stderr = <<>>
       /\ pc = "exited" => exitCode = 0

\* C5 witness: the process has ended after help for the alias of a
\* runnable command.
C5_Witness ==
    /\ pc = "exited"
    /\ args = <<"help", "v">>
    /\ cmd = 1
    /\ stdout # <<>>
    /\ exitCode = 0

\* C6 as stated: when "help" is followed by more than one argument, the
\* process ends with status 2 after a "too many arguments" error, no
\* command was resolved and no command's usage was rendered.
C6_HelpTooManyArguments ==
    ( /\ Len(args) > 2
      /\ args[1] = "help"
      /\ pc \in {"returned", "exited", "panicked"} )
    => /\ pc = "exited"
       /\ exitCode = 2
       /\ \E i \in 1..Len(stderr) : stderr[i].kind = "TooManyArguments"
       /\ ~Resolved
       /\ stdout = <<>>

\* C7 as stated: when resolution falls back to a command that has
\* subcommands and no Run handler, with the unmatched token as remaining
\* argument, the dispatcher reports an error and the process ends with a
\* non-zero status without calling the absent handler and without a panic.
C7_NonRunnableNamespace ==
    ( /\ Resolved
      /\ Len(args) = 2
      /\ args[1] # "help"
      /\ Named(_commands, args[1]) # nil
      /\ ~Runnable(Named(_commands, args[1]))
      /\ Len(Command[Named(_commands, args[1])].SubCommands) > 0
      /\ Named(Command[Named(_commands, args[1])].SubCommands, args[2]) = nil )
    => /\ cmd = Named(_commands, args[1])
       /\ remainingArgs = <<args[2]>>
       /\ pc # "panicked"
       /\ pc = "exited" => (exitCode # 0 /\ stderr # <<>>)

\* C8 as stated: Execute never returns to its caller; every path through
\* it ends in os.Exit.
C8_ExecuteNeverReturns ==
    pc \notin {"returned", "panicked"}

\* C10: the Run handler is called at most once in one invocation, and only
\* after findCommand succeeded on the positional arguments, then the global
\* hook (when one is registered) and then the command's own SetFlags hook
\* (when it has one) were applied, and then the flag set parsed the
\* resolver's remaining args without error; the handler receives the
\* positional args that parse left over; and no handler is called when the
\* first positional argument is "help".
C10_DispatchOrdering ==
    LET runs == { i \in 1..Len(trace) : trace[i] = "Run" }
    IN  /\ Cardinality(runs) <= 1
        /\ runs # {} =>
              /\ trace = <<"findCommand">>
                         \o (IF _setFlags THEN <<"_setFlags">> ELSE <<>>)
                         \o (IF Command[cmd].SetFlags THEN <<"SetFlags">> ELSE <<>>)
                         \o <<"Parse", "Run">>
              /\ findArgs = args
              /\ err = "nil"
              /\ cmd # nil
              /\ Runnable(cmd)
              /\ parseErr = "nil"
              /\ ~flag.nil
              /\ flag.formal = (IF _setFlags THEN GlobalFlagDecls ELSE {})
                               \cup (IF Command[cmd].SetFlags
                                     THEN Command[cmd].FlagDecls ELSE {})
              /\ \E n \in 0..Len(remainingArgs) :
                    /\ runArgs = SubSeq(remainingArgs, n + 1, Len(remainingArgs))
                    /\ \A i \in 1..n :
                          \/ /\ IsFlag(remainingArgs[i])
                             /\ FlagName(remainingArgs[i]) \in flag.formal
                          \/ i = n /\ remainingArgs[i] = "--"
                    /\ runArgs # <<>> =>
                          \/ ~(IsFlag(runArgs[1]) \/ runArgs[1] = "--")
                          \/ (n > 0 /\ remainingArgs[n] = "--")
        /\ (Len(args) >= 1 /\ args[1] = "help") => runs = {}

\* C10 witness: a handler ran after both hooks registered a flag, a flag
\* was parsed and a positional argument was left for the handler.
C10_Witness ==
    /\ pc = "exited"
    /\ trace = <<"findCommand", "_setFlags", "SetFlags", "Parse", "Run">>
    /\ Len(remainingArgs) = 2
    /\ Len(runArgs) = 1

\* C9: _exitStatus starts at 0; no call lowers it; after setExitStatus(n)
\* it is the maximum of its old value and n; after errorf or fatalf it is
\* at least 1; and exit() ends the process with status 0 only if neither
\* errorf nor fatalf was called.
C9_ExitStatusMonotone ==
    /\ _exitStatus = 0
    /\ [][_exitStatus' >= _exitStatus]_vars
    /\ [][(calls' # calls /\ calls'[Len(calls')].op = "setExitStatus")
            => LET n == calls'[Len(calls')].n
               IN  /\ _exitStatus' >= _exitStatus
                   /\ _exitStatus' >= n
                   /\ _exitStatus' \in {_exitStatus, n}]_vars
    /\ []((\E i \in 1..Len(calls) : calls[i].op \in {"errorf", "fatalf"})
            => _exitStatus >= 1)
    /\ []((pc = "exited" /\ exitCode = 0)
            => \A i \in 1..Len(calls) : calls[i].op \notin {"errorf", "fatalf"})
    /\ [](pc = "exited" => exitCode = _exitStatus)

\* C9 witness: errorf, then setExitStatus(0), then exit: the process ended
\* with status 1.
C9_Witness ==
    /\ pc = "exited"
    /\ Len(calls) = 3
    /\ calls[1].op = "errorf"
    /\ calls[2] = [op |-> "setExitStatus", n |-> 0]
    /\ calls[3].op = "exit"
    /\ exitCode = 1

====
